---- MODULE Spec2Model ----
(***************************************************************************)
(* A model of the gothu messenger's server actions (lib/actions.ts), its   *)
(* session verifier (lib/auth.ts), the four tables of db/schema.ts and the *)
(* ChatApp component that calls the actions from the browser.              *)
(* Strings are sequences of one-character strings, rows are records, a     *)
(* table is the sequence of its rows in rowid order (row i has id i).      *)
(***************************************************************************)
EXTENDS Integers, Sequences, FiniteSets, TLC

\* ------------------------------------------------------------------ bounds
MaxUsers == 2
MaxChats == 2
MaxMsgs == 2
NumClients == 2

\* ------------------------------------------------------- program constants
MinPasswordLen == 6

VARIABLES
  users,        \* table users: rows [phone, username, displayName, passwordHash, bio, isOnline]
  chats,        \* table chats: rows [type, name, createdBy, createdAt]
  chatMembers,  \* table chat_members: rows [chatId, userId, role]
  messages,     \* table messages: rows [chatId, senderId, text, replyToId, isEdited,
                \*                        isDeleted, createdAt]
  clock,        \* the wall clock new Date() reads, in seconds
  cookies,      \* per client (browser): the value of its auth-token cookie
  envSecret,    \* whether process.env.JWT_SECRET is set in this deployment
  foreignKeys,  \* whether the store enforces the declared foreign keys
  calls,        \* per client: the createPrivateChat call in flight, by await point
  result,       \* what the last finished operation returned, or that it raised
  sent,         \* history, per message: its text when sent, what its sender did since
  ui            \* per client: the state of its ChatApp component, if one is mounted

vars == <<users, chats, chatMembers, messages, clock, cookies, envSecret, foreignKeys,
          calls, result, sent, ui>>

tables == <<users, chats, chatMembers, messages>>

session == <<clock, cookies>>

config == <<envSecret, foreignKeys>>

Clients == 1..NumClients

\* ----------------------------------------------------------------- strings
Rep(ch, n) == [i \in 1..n |-> ch]

\* String.prototype.toLowerCase on the characters the model uses
LowerChar(ch) ==
  IF ch = "A" THEN "a" ELSE IF ch = "B" THEN "b" ELSE ch

toLowerCase(s) == [i \in 1..Len(s) |-> LowerChar(s[i])]

WordChar(ch) == ch \in {"a", "b", "A", "B", "7", "8", "_"}

\* the pattern without its anchors: one word character anywhere
UsernamePatternUnanchored(s) == \E i \in 1..Len(s) : WordChar(s[i])

\* /^[a-zA-Z0-9_]+$/.test(s)
UsernamePattern(s) == Len(s) > 0 /\ \A i \in 1..Len(s) : WordChar(s[i])

\* String.prototype.trim: strip leading and trailing blanks
RECURSIVE TrimLeft(_)
TrimLeft(s) ==
  IF s # <<>> /\ Head(s) = " " THEN TrimLeft(Tail(s)) ELSE s

RECURSIVE TrimRight(_)
TrimRight(s) ==
  IF s # <<>> /\ s[Len(s)] = " " THEN TrimRight(SubSeq(s, 1, Len(s) - 1)) ELSE s

\* String.prototype.trimStart: strip leading blanks only
trimStart(s) == TrimLeft(s)

trim(s) == TrimRight(TrimLeft(s))

\* bcrypt.hash / bcrypt.compare: a one-way image of the password
bcryptHash(password) == <<"bcrypt">> \o password

bcryptCompare(password, passwordHash) == passwordHash = bcryptHash(password)

\* ------------------------------------------------------------ input domains
PhoneInputs == {<<>>, <<"7">>, <<"a">>}
UsernameInputs == {<<"a">>, <<"A">>, <<"7">>, <<"a", " ">>}
NameInputs == {<<"D">>}
PasswordInputs == {Rep("p", 5), Rep("p", 6), Rep("q", 6)}
LoginInputs == {<<>>, <<"7">>, <<"a">>, <<"A">>}
LoginPasswords == {Rep("p", 6), Rep("q", 6)}

\* ----------------------------------------------------------------- session
DefaultSecret == "rovigram-secret-key-change-in-production-2024"

JWT_SECRET == IF envSecret THEN "process.env.JWT_SECRET" ELSE DefaultSecret

\* no cookie / no session: the null of getCurrentUser
NoToken == [id |-> 0, username |-> <<>>, displayName |-> <<>>, phone |-> <<>>, key |-> "none"]

\* new SignJWT({...user}).sign(JWT_SECRET)
createToken(user) ==
  [id |-> user.id, username |-> user.username, displayName |-> user.displayName,
   phone |-> user.phone, key |-> JWT_SECRET]

\* the payload decoded without checking the signature
verifyTokenUnchecked(token) == token

\* jwtVerify(token, JWT_SECRET): the payload, or null on a bad signature
verifyToken(token) == IF token.key = JWT_SECRET THEN token ELSE NoToken

\* cookies().get("auth-token"), then verifyToken
getCurrentUser(c) ==
  IF cookies[c] = NoToken THEN NoToken ELSE verifyToken(cookies[c])

\* tokens a client can present without the server having issued them: one signed
\* with the secret published in the source, one signed with a key of its own
PresentedTokens ==
  {[id |-> 1, username |-> <<"a">>, displayName |-> <<"D">>, phone |-> <<"7">>, key |-> k] :
     k \in {DefaultSecret, "other-key"}}

\* ------------------------------------------------------------------ results
Ret(op, c, args, kind, val) ==
  [op |-> op, client |-> c, args |-> args, kind |-> kind, val |-> val]

Error(op, c, args, msg) == Ret(op, c, args, "error", msg)

NotAuthenticated(op, c, args) == Error(op, c, args, "Not authenticated")

\* -------------------------------------------------------------------- rows
UserIds == 1..Len(users)

UserRow(i) == [id |-> i] @@ users[i]

\* no message: null where a message may stand
NoMessage == [id |-> 0]

\* no getChatMessages call of the polling interval is awaited
NoPoll == [chatId |-> 0, rows |-> <<>>]

\* a browser that shows no ChatApp
Unmounted ==
  [currentUser |-> NoToken, chats |-> <<>>, activeChatId |-> 0, messages |-> <<>>,
   contextMenu |-> NoMessage, replyingTo |-> NoMessage, editingMessage |-> NoMessage,
   clipboard |-> <<>>, pc |-> "idle", chatId |-> 0, poll |-> NoPoll]

NoCall == [pc |-> "idle"]

Init ==
  /\ users = <<>>
  /\ chats = <<>>
  /\ chatMembers = <<>>
  /\ messages = <<>>
  /\ clock = 1
  /\ cookies = [c \in Clients |-> NoToken]
  /\ envSecret \in BOOLEAN
  /\ foreignKeys \in BOOLEAN
  /\ calls = [c \in Clients |-> NoCall]
  /\ result = Ret("none", 0, <<>>, "none", 0)
  /\ sent = <<>>
  /\ ui = [c \in Clients |-> Unmounted]

\* a deployment that sets JWT_SECRET
InitConfigured == Init /\ envSecret

\* ============================================================ AUTH ACTIONS

\* db.select().from(users).where(or(eq(users.phone, phone), eq(users.username, username)))
Existing(phone, username) ==
  {i \in UserIds : users[i].phone = phone \/ users[i].username = username}

\* the unique indexes users_phone_unique and users_username_unique
UniqueViolation(phone, username) ==
  \E i \in UserIds : users[i].phone = phone \/ users[i].username = username

\* .values({phone, username: username.toLowerCase(), displayName, passwordHash}), the
\* other columns at their defaults
NewUserRow(phone, username, displayName, password) ==
  [phone |-> phone, username |-> toLowerCase(username),
   displayName |-> displayName, passwordHash |-> bcryptHash(password),
   bio |-> <<>>, isOnline |-> FALSE]

registerAction(c, phone, username, displayName, password) ==
  LET args == <<phone, username, displayName, password>>
      row == NewUserRow(phone, username, displayName, password)
      user == [id |-> Len(users) + 1] @@ row
  IN
  IF phone = <<>> \/ username = <<>> \/ displayName = <<>> \/ password = <<>>
  THEN /\ result' = Error("registerAction", c, args, "All fields are required")
       /\ UNCHANGED <<tables, session, config, calls, sent>>
  ELSE IF Len(password) < MinPasswordLen
  THEN /\ result' = Error("registerAction", c, args, "Password must be at least 6 characters")
       /\ UNCHANGED <<tables, session, config, calls, sent>>
  ELSE IF ~UsernamePattern(username)
  THEN /\ result' = Error("registerAction", c, args,
                          "Username can only contain letters, numbers, and underscores")
       /\ UNCHANGED <<tables, session, config, calls, sent>>
  ELSE IF Existing(phone, username) # {}
  THEN /\ result' = Error("registerAction", c, args,
                          "Phone number or username already registered")
       /\ UNCHANGED <<tables, session, config, calls, sent>>
  ELSE IF UniqueViolation(row.phone, row.username)
  THEN /\ result' = Ret("registerAction", c, args, "raise", "UNIQUE constraint failed")
       /\ UNCHANGED <<tables, session, config, calls, sent>>
  ELSE /\ Len(users) < MaxUsers
       /\ users' = Append(users, row)
       /\ cookies' = [cookies EXCEPT ![c] = createToken(user)]
       /\ result' = Ret("registerAction", c, args, "redirect", "/chat")
       /\ UNCHANGED <<chats, chatMembers, messages, clock, config, calls, sent>>

\* db.select().from(users).where(or(eq(users.phone, login), eq(users.username, login.toLowerCase())))
LoginMatches(login) ==
  {i \in UserIds : users[i].phone = login \/ users[i].username = toLowerCase(login)}

loginAction(c, login, password) ==
  LET args == <<login, password>> IN
  IF login = <<>> \/ password = <<>>
  THEN /\ result' = Error("loginAction", c, args, "All fields are required")
       /\ UNCHANGED <<tables, session, config, calls, sent>>
  ELSE IF LoginMatches(login) = {}
  THEN /\ result' = Error("loginAction", c, args, "User not found")
       /\ UNCHANGED <<tables, session, config, calls, sent>>
  ELSE \E i \in LoginMatches(login) :  \* result[0]: the query states no order
       IF ~bcryptCompare(password, users[i].passwordHash)
       THEN /\ result' = Error("loginAction", c, args, "Invalid password")
            /\ UNCHANGED <<tables, session, config, calls, sent>>
       ELSE /\ users' = [users EXCEPT ![i].isOnline = TRUE]
            /\ cookies' = [cookies EXCEPT ![c] = createToken(UserRow(i))]
            /\ result' = Ret("loginAction", c, args, "redirect", "/chat")
            /\ UNCHANGED <<chats, chatMembers, messages, clock, config, calls, sent>>

\* the flag cleared, the cookie left in place
logoutActionKeepsCookie(c) ==
  LET user == getCurrentUser(c) IN
  /\ users' = IF user # NoToken /\ user.id \in UserIds
              THEN [users EXCEPT ![user.id].isOnline = FALSE]
              ELSE users
  /\ result' = Ret("logoutAction", c, <<>>, "redirect", "/")
  /\ UNCHANGED <<chats, chatMembers, messages, session, config, calls, sent>>

logoutAction(c) ==
  LET user == getCurrentUser(c) IN
  /\ users' = IF user # NoToken /\ user.id \in UserIds
              THEN [users EXCEPT ![user.id].isOnline = FALSE]
              ELSE users
  /\ cookies' = [cookies EXCEPT ![c] = NoToken]
  /\ result' = Ret("logoutAction", c, <<>>, "redirect", "/")
  /\ UNCHANGED <<chats, chatMembers, messages, clock, config, calls, sent>>

\* a client sends a cookie of its own making
presentToken(c, token) ==
  /\ cookies' = [cookies EXCEPT ![c] = token]
  /\ UNCHANGED <<tables, clock, config, calls, result, sent>>

\* ============================================================ CHAT ACTIONS

\* an operation that returns r and writes nothing
Returns(r) ==
  /\ result' = r
  /\ UNCHANGED <<tables, session, config, calls, sent>>

ChatIds == 1..Len(chats)

\* FOREIGN KEY ... REFERENCES users(id) / chats(id), when the store enforces it
UserKeyOk(id) == ~foreignKeys \/ id \in UserIds

ChatKeyOk(id) == ~foreignKeys \/ id \in ChatIds

\* db.select({chatId}).from(chatMembers).where(eq(chatMembers.userId, uid))
MemberChats(cm, uid) ==
  LET rows == SelectSeq(cm, LAMBDA m : m.userId = uid)
  IN [k \in 1..Len(rows) |-> rows[k].chatId]

\* db.select().from(chatMembers).where(eq(chatMembers.chatId, chatId))
MembersOf(cm, chatId) == SelectSeq(cm, LAMBDA m : m.chatId = chatId)

\* db.select().from(chats).where(and(eq(chats.id, chatId), eq(chats.type, "private")))
PrivateChatRows(ch, chatId) ==
  {i \in 1..Len(ch) : i = chatId /\ ch[i].type = "private"}

\* the roster counted without the requester
IsExistingPrivateOneMember(chat, members, targetUserId) ==
  /\ chat # {}
  /\ Len(members) = 1
  /\ \E k \in 1..Len(members) : members[k].userId = targetUserId

\* chat.length > 0 && members.length === 2 && members.some(m => m.userId === targetUserId)
IsExistingPrivate(chat, members, targetUserId) ==
  /\ chat # {}
  /\ Len(members) = 2
  /\ \E k \in 1..Len(members) : members[k].userId = targetUserId

\* the for loop over existingChats: the first chat that matches, or 0
RECURSIVE FirstExisting(_, _)
FirstExisting(existingChats, targetUserId) ==
  IF existingChats = <<>> THEN 0
  ELSE IF IsExistingPrivate(PrivateChatRows(chats, Head(existingChats)),
                            MembersOf(chatMembers, Head(existingChats)), targetUserId)
       THEN Head(existingChats)
       ELSE FirstExisting(Tail(existingChats), targetUserId)

PrivateChatRow(uid) ==
  [type |-> "private", name |-> <<>>, createdBy |-> uid, createdAt |-> clock]

PrivateMemberRows(chatId, uid, targetUserId) ==
  << [chatId |-> chatId, userId |-> uid, role |-> "member"],
     [chatId |-> chatId, userId |-> targetUserId, role |-> "member"] >>

\* the handler run without interruption
createPrivateChat(c, targetUserId) ==
  LET currentUser == getCurrentUser(c)
      args == <<targetUserId>>
      found == FirstExisting(MemberChats(chatMembers, currentUser.id), targetUserId)
      newId == Len(chats) + 1
  IN
  IF currentUser = NoToken
  THEN Returns(NotAuthenticated("createPrivateChat", c, args))
  ELSE IF found # 0
  THEN Returns(Ret("createPrivateChat", c, args, "chatId", found))
  ELSE IF ~UserKeyOk(currentUser.id)
  THEN Returns(Ret("createPrivateChat", c, args, "raise", "FOREIGN KEY constraint failed"))
  ELSE /\ Len(chats) < MaxChats
       /\ chats' = Append(chats, PrivateChatRow(currentUser.id))
       /\ clock' = clock + 1
       /\ IF UserKeyOk(targetUserId)
          THEN /\ chatMembers' = chatMembers \o PrivateMemberRows(newId, currentUser.id, targetUserId)
               /\ result' = Ret("createPrivateChat", c, args, "chatId", newId)
          ELSE /\ chatMembers' = chatMembers
               /\ result' = Ret("createPrivateChat", c, args, "raise",
                                "FOREIGN KEY constraint failed")
       /\ UNCHANGED <<users, messages, cookies, config, calls, sent>>

createGroupChat(c, name, memberIds) ==
  LET currentUser == getCurrentUser(c)
      args == <<name, memberIds>>
      newId == Len(chats) + 1
      allMembers == <<currentUser.id>> \o memberIds
      rows == [i \in 1..Len(allMembers) |->
                 [chatId |-> newId, userId |-> allMembers[i],
                  role |-> IF i = 1 THEN "owner" ELSE "member"]]
  IN
  IF currentUser = NoToken
  THEN Returns(NotAuthenticated("createGroupChat", c, args))
  ELSE IF ~UserKeyOk(currentUser.id)
  THEN Returns(Ret("createGroupChat", c, args, "raise", "FOREIGN KEY constraint failed"))
  ELSE /\ Len(chats) < MaxChats
       /\ chats' = Append(chats, [type |-> "group", name |-> name,
                                  createdBy |-> currentUser.id, createdAt |-> clock])
       /\ clock' = clock + 1
       /\ IF \A i \in 1..Len(allMembers) : UserKeyOk(allMembers[i])
          THEN /\ chatMembers' = chatMembers \o rows
               /\ result' = Ret("createGroupChat", c, args, "chatId", newId)
          ELSE /\ chatMembers' = chatMembers
               /\ result' = Ret("createGroupChat", c, args, "raise",
                                "FOREIGN KEY constraint failed")
       /\ UNCHANGED <<users, messages, cookies, config, calls, sent>>

\* ========================================================= MESSAGE ACTIONS
MessageIds == 1..Len(messages)

sendMessage(c, chatId, text, replyToId) ==
  LET currentUser == getCurrentUser(c)
      args == <<chatId, text, replyToId>>
      row == [chatId |-> chatId, senderId |-> currentUser.id, text |-> trim(text),
              replyToId |-> replyToId, isEdited |-> FALSE, isDeleted |-> FALSE,
              createdAt |-> clock]
  IN
  IF currentUser = NoToken
  THEN Returns(NotAuthenticated("sendMessage", c, args))
  ELSE IF trim(text) = <<>>
  THEN Returns(Error("sendMessage", c, args, "Message cannot be empty"))
  ELSE IF ~(ChatKeyOk(chatId) /\ UserKeyOk(currentUser.id))
  THEN Returns(Ret("sendMessage", c, args, "raise", "FOREIGN KEY constraint failed"))
  ELSE /\ Len(messages) < MaxMsgs
       /\ messages' = Append(messages, row)
       /\ clock' = clock + 1
       /\ sent' = Append(sent, [text |-> row.text, bySender |-> FALSE,
                                deleted |-> FALSE, deletedText |-> <<>>])
       /\ result' = Ret("sendMessage", c, args, "message",
                        [id |-> Len(messages) + 1] @@ row)
       /\ UNCHANGED <<users, chats, chatMembers, cookies, config, calls>>

\* the where clause without its senderId term
EditWhereAnySender(messageId, uid) ==
  {i \in MessageIds : i = messageId}

\* .where(and(eq(messages.id, messageId), eq(messages.senderId, currentUser.id)))
EditWhere(messageId, uid) ==
  {i \in MessageIds : i = messageId /\ messages[i].senderId = uid}

editMessage(c, messageId, newText) ==
  LET currentUser == getCurrentUser(c)
      args == <<messageId, newText>>
      hit == EditWhere(messageId, currentUser.id)
  IN
  IF currentUser = NoToken
  THEN Returns(NotAuthenticated("editMessage", c, args))
  ELSE /\ messages' = [i \in MessageIds |->
                         IF i \in hit
                         THEN [messages[i] EXCEPT !.text = newText, !.isEdited = TRUE]
                         ELSE messages[i]]
       /\ sent' = [i \in MessageIds |->
                     IF i = messageId /\ messages[i].senderId = currentUser.id
                     THEN [sent[i] EXCEPT !.bySender = TRUE]
                     ELSE sent[i]]
       /\ result' = Ret("editMessage", c, args, "success", TRUE)
       /\ UNCHANGED <<users, chats, chatMembers, session, config, calls>>

deleteMessage(c, messageId) ==
  LET currentUser == getCurrentUser(c)
      args == <<messageId>>
      hit == EditWhere(messageId, currentUser.id)
  IN
  IF currentUser = NoToken
  THEN Returns(NotAuthenticated("deleteMessage", c, args))
  ELSE /\ messages' = [i \in MessageIds |->
                         IF i \in hit
                         THEN [messages[i] EXCEPT !.isDeleted = TRUE]
                         ELSE messages[i]]
       /\ sent' = [i \in MessageIds |->
                     IF i = messageId /\ messages[i].senderId = currentUser.id
                     THEN [sent[i] EXCEPT !.bySender = TRUE, !.deleted = TRUE,
                                          !.deletedText = IF sent[i].deleted
                                                          THEN sent[i].deletedText
                                                          ELSE messages[i].text]
                     ELSE sent[i]]
       /\ result' = Ret("deleteMessage", c, args, "success", TRUE)
       /\ UNCHANGED <<users, chats, chatMembers, session, config, calls>>

\* =========================================================== DATA FETCHING

\* a stable sort of <<key, value>> pairs by descending key (Array.prototype.sort
\* with the comparator bTime - aTime)
RECURSIVE InsertDesc(_, _)
InsertDesc(pair, sorted) ==
  IF sorted = <<>> THEN <<pair>>
  ELSE IF Head(sorted)[1] >= pair[1]
       THEN <<Head(sorted)>> \o InsertDesc(pair, Tail(sorted))
       ELSE <<pair>> \o sorted

RECURSIVE SortDesc(_)
SortDesc(pairs) ==
  IF pairs = <<>> THEN <<>>
  ELSE InsertDesc(pairs[Len(pairs)], SortDesc(SubSeq(pairs, 1, Len(pairs) - 1)))

\* ORDER BY key ascending, rows of equal key in rowid order
RECURSIVE InsertAsc(_, _)
InsertAsc(pair, sorted) ==
  IF sorted = <<>> THEN <<pair>>
  ELSE IF Head(sorted)[1] <= pair[1]
       THEN <<Head(sorted)>> \o InsertAsc(pair, Tail(sorted))
       ELSE <<pair>> \o sorted

RECURSIVE SortAsc(_)
SortAsc(pairs) ==
  IF pairs = <<>> THEN <<>>
  ELSE InsertAsc(pairs[Len(pairs)], SortAsc(SubSeq(pairs, 1, Len(pairs) - 1)))

Values(pairs) == [k \in 1..Len(pairs) |-> pairs[k][2]]

\* chatMembers innerJoin users, where chatId
MembersWithUsers(chatId) ==
  LET rows == SelectSeq(chatMembers, LAMBDA m : m.chatId = chatId /\ m.userId \in UserIds)
  IN [k \in 1..Len(rows) |->
        [userId |-> rows[k].userId, role |-> rows[k].role,
         username |-> users[rows[k].userId].username,
         displayName |-> users[rows[k].userId].displayName,
         isOnline |-> users[rows[k].userId].isOnline]]

\* the newest message of the chat, deleted or not
LastMessageAnyFlag(chatId) ==
  LET all == {i \in MessageIds : messages[i].chatId = chatId}
  IN IF all = {} THEN NoMessage
     ELSE LET i == CHOOSE j \in all :
                     \A k \in all : \/ messages[k].createdAt < messages[j].createdAt
                                    \/ (messages[k].createdAt = messages[j].createdAt /\ k >= j)
          IN [id |-> i] @@ messages[i]

\* where chatId and not isDeleted, orderBy(desc(createdAt)).limit(1)
LastMessage(chatId) ==
  LET live == {i \in MessageIds : messages[i].chatId = chatId /\ ~messages[i].isDeleted}
  IN IF live = {} THEN NoMessage
     ELSE LET i == CHOOSE j \in live :
                     \A k \in live : \/ messages[k].createdAt < messages[j].createdAt
                                     \/ (messages[k].createdAt = messages[j].createdAt /\ k >= j)
          IN [id |-> i] @@ messages[i]

\* the summary named after the first member, whoever it is
ChatSummaryFirstMember(chatId, uid) ==
  LET chat == chats[chatId]
      members == MembersWithUsers(chatId)
      isPrivateWithOther == chat.type = "private" /\ members # <<>>
  IN [id |-> chatId, type |-> chat.type, createdBy |-> chat.createdBy,
      createdAt |-> chat.createdAt,
      name |-> IF isPrivateWithOther THEN members[1].displayName ELSE chat.name,
      members |-> members,
      lastMessage |-> LastMessage(chatId),
      otherUserOnline |-> IF isPrivateWithOther THEN members[1].isOnline ELSE FALSE]

ChatSummary(chatId, uid) ==
  LET chat == chats[chatId]
      members == MembersWithUsers(chatId)
      others == SelectSeq(members, LAMBDA m : m.userId # uid)
      isPrivateWithOther == chat.type = "private" /\ others # <<>>
  IN [id |-> chatId, type |-> chat.type, createdBy |-> chat.createdBy,
      createdAt |-> chat.createdAt,
      name |-> IF isPrivateWithOther THEN others[1].displayName ELSE chat.name,
      members |-> members,
      lastMessage |-> LastMessage(chatId),
      otherUserOnline |-> IF isPrivateWithOther THEN others[1].isOnline ELSE FALSE]

\* the chat's own creation time, whatever its messages
SummaryTimeOfChat(a) == a.createdAt

\* aTime: a.lastMessage?.createdAt?.getTime() || a.createdAt?.getTime() || 0
SummaryTime(a) ==
  IF a.lastMessage # NoMessage THEN a.lastMessage.createdAt ELSE a.createdAt

getUserChats(c) ==
  LET currentUser == getCurrentUser(c)
      memberChats == SelectSeq(MemberChats(chatMembers, currentUser.id),
                               LAMBDA id : id \in ChatIds)
      chatList == [k \in 1..Len(memberChats) |-> ChatSummary(memberChats[k], currentUser.id)]
      keyed == [k \in 1..Len(chatList) |-> <<SummaryTime(chatList[k]), chatList[k]>>]
  IN
  IF currentUser = NoToken
  THEN Returns(Ret("getUserChats", c, <<>>, "rows", <<>>))
  ELSE Returns(Ret("getUserChats", c, <<>>, "rows", Values(SortDesc(keyed))))

getChatMessages(c, chatId) ==
  LET currentUser == getCurrentUser(c)
      ids == SelectSeq([i \in MessageIds |-> i],
                       LAMBDA i : messages[i].chatId = chatId /\ messages[i].senderId \in UserIds)
      keyed == [k \in 1..Len(ids) |->
                  <<messages[ids[k]].createdAt,
                    [id |-> ids[k],
                     senderUsername |-> users[messages[ids[k]].senderId].username,
                     senderDisplayName |-> users[messages[ids[k]].senderId].displayName]
                    @@ messages[ids[k]]>>]
  IN
  IF currentUser = NoToken
  THEN Returns(Ret("getChatMessages", c, <<chatId>>, "rows", <<>>))
  ELSE Returns(Ret("getChatMessages", c, <<chatId>>, "rows", Values(SortAsc(keyed))))

SearchLimit == 20

\* SQLite LIKE '%q%': q occurs in s, "_" matches any one character, letters match
\* in either case
Like(s, q) ==
  \E off \in 0..(Len(s) - Len(q)) :
    \A k \in 1..Len(q) : q[k] = "_" \/ LowerChar(q[k]) = LowerChar(s[off + k])

\* the filter dropped: the limited rows as the store gave them
searchUsersUnfiltered(c, query) ==
  LET currentUser == getCurrentUser(c)
      hits == SelectSeq([i \in UserIds |-> i],
                        LAMBDA i : \/ Like(users[i].username, toLowerCase(query))
                                   \/ Like(users[i].displayName, query))
      results == SubSeq(hits, 1, IF Len(hits) < SearchLimit THEN Len(hits) ELSE SearchLimit)
  IN
  IF currentUser = NoToken
  THEN Returns(Ret("searchUsers", c, <<query>>, "rows", <<>>))
  ELSE IF trim(query) = <<>>
  THEN Returns(Ret("searchUsers", c, <<query>>, "rows", <<>>))
  ELSE Returns(Ret("searchUsers", c, <<query>>, "rows",
                   [k \in 1..Len(results) |->
                      [id |-> results[k], username |-> users[results[k]].username,
                       displayName |-> users[results[k]].displayName,
                       isOnline |-> users[results[k]].isOnline]]))

searchUsers(c, query) ==
  LET currentUser == getCurrentUser(c)
      hits == SelectSeq([i \in UserIds |-> i],
                        LAMBDA i : \/ Like(users[i].username, toLowerCase(query))
                                   \/ Like(users[i].displayName, query))
      limited == SubSeq(hits, 1, IF Len(hits) < SearchLimit THEN Len(hits) ELSE SearchLimit)
      results == SelectSeq(limited, LAMBDA i : i # currentUser.id)
  IN
  IF currentUser = NoToken
  THEN Returns(Ret("searchUsers", c, <<query>>, "rows", <<>>))
  ELSE IF trim(query) = <<>>
  THEN Returns(Ret("searchUsers", c, <<query>>, "rows", <<>>))
  ELSE Returns(Ret("searchUsers", c, <<query>>, "rows",
                   [k \in 1..Len(results) |->
                      [id |-> results[k], username |-> users[results[k]].username,
                       displayName |-> users[results[k]].displayName,
                       isOnline |-> users[results[k]].isOnline]]))

\* the whole users row, the hash with it
getUserProfileWholeRow(c) ==
  LET currentUser == getCurrentUser(c) IN
  IF currentUser = NoToken
  THEN Returns(Ret("getUserProfile", c, <<>>, "null", 0))
  ELSE IF currentUser.id \notin UserIds
  THEN Returns(Ret("getUserProfile", c, <<>>, "null", 0))
  ELSE Returns(Ret("getUserProfile", c, <<>>, "profile", UserRow(currentUser.id)))

\* const { passwordHash, ...profile } = result[0]; return profile
getUserProfile(c) ==
  LET currentUser == getCurrentUser(c) IN
  IF currentUser = NoToken
  THEN Returns(Ret("getUserProfile", c, <<>>, "null", 0))
  ELSE IF currentUser.id \notin UserIds
  THEN Returns(Ret("getUserProfile", c, <<>>, "null", 0))
  ELSE Returns(Ret("getUserProfile", c, <<>>, "profile",
                   [id |-> currentUser.id, username |-> users[currentUser.id].username,
                    phone |-> users[currentUser.id].phone,
                    displayName |-> users[currentUser.id].displayName,
                    bio |-> users[currentUser.id].bio,
                    isOnline |-> users[currentUser.id].isOnline]))

\* an omitted form field (formData.get gives null) is the empty string here: the
\* handler treats both alike (x || fallback)
updateProfile(c, displayName, bio, username) ==
  LET currentUser == getCurrentUser(c)
      args == <<displayName, bio, username>>
      newUsername == IF toLowerCase(username) # <<>> THEN toLowerCase(username)
                     ELSE currentUser.username
  IN
  IF currentUser = NoToken
  THEN Returns(NotAuthenticated("updateProfile", c, args))
  ELSE IF displayName = <<>>
  THEN Returns(Error("updateProfile", c, args, "Display name is required"))
  ELSE IF currentUser.id \notin UserIds
  THEN Returns(Ret("updateProfile", c, args, "success", TRUE))
  ELSE IF \E i \in UserIds : i # currentUser.id /\ users[i].username = newUsername
  THEN Returns(Ret("updateProfile", c, args, "raise", "UNIQUE constraint failed"))
  ELSE /\ users' = [users EXCEPT ![currentUser.id].displayName = displayName,
                                 ![currentUser.id].bio = bio,
                                 ![currentUser.id].username = newUsername]
       /\ result' = Ret("updateProfile", c, args, "success", TRUE)
       /\ UNCHANGED <<chats, chatMembers, messages, session, config, calls, sent>>

\* ================================================================ CHAT APP
\* The ChatApp component of one browser: its React state ui[c] and its handlers,
\* one action per stretch of a handler between two awaits. A server action a
\* handler awaits runs in the same step as the state update that follows it.

server == <<tables, session, config, calls, result, sent>>

Mounted(c) == ui[c].currentUser # NoToken

AtRest(c) == Mounted(c) /\ ui[c].pc = "idle"

\* const activeChat = chats.find(c => c.id === activeChatId)
HasActiveChat(c) ==
  \E k \in 1..Len(ui[c].chats) : ui[c].chats[k].id = ui[c].activeChatId

\* the /chat page: redirect without a session, else ChatApp with the user's chats
ChatPage(c) ==
  LET user == getCurrentUser(c) IN
  /\ ~Mounted(c)
  /\ IF user = NoToken
     THEN Returns(Ret("ChatPage", c, <<>>, "redirect", "/")) /\ UNCHANGED ui
     ELSE /\ getUserChats(c)
          /\ ui' = [ui EXCEPT ![c] = [Unmounted EXCEPT !.currentUser = user,
                                                       !.chats = result'.val]]

\* openChat up to its await
openChat(c, chatId) ==
  /\ AtRest(c)
  /\ \E k \in 1..Len(ui[c].chats) : ui[c].chats[k].id = chatId
  /\ ui' = [ui EXCEPT ![c].activeChatId = chatId, ![c].pc = "openChat",
                      ![c].chatId = chatId]
  /\ UNCHANGED server

\* const msgs = await getChatMessages(chatId); setMessages(msgs)
openChatMessages(c) ==
  /\ ui[c].pc = "openChat"
  /\ getChatMessages(c, ui[c].chatId)
  /\ ui' = [ui EXCEPT ![c].messages = result'.val, ![c].pc = "idle"]

\* the interval's request, its response dropped
pollMessagesDropped(c) ==
  /\ Mounted(c)
  /\ ui[c].activeChatId # 0
  /\ getChatMessages(c, ui[c].activeChatId)
  /\ UNCHANGED ui

\* the 3-second interval: messages of the active chat
pollMessages(c) ==
  /\ Mounted(c)
  /\ ui[c].activeChatId # 0
  /\ getChatMessages(c, ui[c].activeChatId)
  /\ ui' = [ui EXCEPT ![c].messages = result'.val]

\* the interval's callback up to the end of its await: the request is made for the
\* chat that is active when the timer fires, the server answers, and the answer is
\* on its way while the browser goes on
pollMessagesRequest(c) ==
  /\ Mounted(c)
  /\ ui[c].activeChatId # 0
  /\ ui[c].poll = NoPoll
  /\ getChatMessages(c, ui[c].activeChatId)
  /\ ui' = [ui EXCEPT ![c].poll = [chatId |-> ui[c].activeChatId, rows |-> result'.val]]

\* the await returns: setMessages(msgs), whatever chat is active by now
pollMessagesResponse(c) ==
  /\ ui[c].poll # NoPoll
  /\ ui' = [ui EXCEPT ![c].messages = ui[c].poll.rows, ![c].poll = NoPoll]
  /\ UNCHANGED server

\* the 5-second interval: the chat list
pollChats(c) ==
  /\ Mounted(c)
  /\ getUserChats(c)
  /\ ui' = [ui EXCEPT ![c].chats = result'.val]

\* right click on the k-th message shown
handleContextMenu(c, k) ==
  /\ Mounted(c)
  /\ HasActiveChat(c)
  /\ k \in 1..Len(ui[c].messages)
  /\ ui' = [ui EXCEPT ![c].contextMenu = ui[c].messages[k]]
  /\ UNCHANGED server

\* the menu's Reply button
menuReply(c) ==
  /\ ui[c].contextMenu # NoMessage
  /\ ui' = [ui EXCEPT ![c].replyingTo = ui[c].contextMenu, ![c].contextMenu = NoMessage]
  /\ UNCHANGED server

\* Edit and Delete are offered on the user's own messages that are not deleted
OwnLiveMessage(c) ==
  /\ ui[c].contextMenu # NoMessage
  /\ ui[c].contextMenu.senderId = ui[c].currentUser.id
  /\ ~ui[c].contextMenu.isDeleted

\* the menu's Edit button
menuEdit(c) ==
  /\ OwnLiveMessage(c)
  /\ ui' = [ui EXCEPT ![c].editingMessage = ui[c].contextMenu,
                      ![c].contextMenu = NoMessage]
  /\ UNCHANGED server

\* the menu's Delete button: await deleteMessage(id); setContextMenu(null)
menuDelete(c) ==
  /\ OwnLiveMessage(c)
  /\ ui[c].pc = "idle"
  /\ deleteMessage(c, ui[c].contextMenu.id)
  /\ ui' = [ui EXCEPT ![c].contextMenu = NoMessage, ![c].pc = "delete"]

\* ... const msgs = await getChatMessages(activeChatId!); setMessages(msgs)
menuDeleteMessages(c) ==
  /\ ui[c].pc = "delete"
  /\ getChatMessages(c, ui[c].activeChatId)
  /\ ui' = [ui EXCEPT ![c].messages = result'.val, ![c].pc = "idle"]

\* the menu's Copy button: clipboard.writeText(message.text || "")
menuCopy(c) ==
  /\ ui[c].contextMenu # NoMessage
  /\ ui' = [ui EXCEPT ![c].clipboard = ui[c].contextMenu.text,
                      ![c].contextMenu = NoMessage]
  /\ UNCHANGED server

\* handleSendMessage with the text typed, up to the end of its first await
handleSendMessage(c, messageText) ==
  /\ AtRest(c)
  /\ trim(messageText) # <<>>
  /\ ui[c].activeChatId # 0
  /\ IF ui[c].editingMessage # NoMessage
     THEN /\ editMessage(c, ui[c].editingMessage.id, messageText)
          /\ ui' = [ui EXCEPT ![c].editingMessage = NoMessage, ![c].pc = "sent"]
     ELSE /\ sendMessage(c, ui[c].activeChatId, messageText, ui[c].replyingTo.id)
          /\ ui' = [ui EXCEPT ![c].replyingTo = NoMessage, ![c].pc = "sent"]

\* ... const msgs = await getChatMessages(activeChatId); setMessages(msgs)
handleSendMessageMessages(c) ==
  /\ ui[c].pc = "sent"
  /\ getChatMessages(c, ui[c].activeChatId)
  /\ ui' = [ui EXCEPT ![c].messages = result'.val, ![c].pc = "listed"]

\* ... const updatedChats = await getUserChats(); setChats(updatedChats)
handleSendMessageChats(c) ==
  /\ ui[c].pc = "listed"
  /\ getUserChats(c)
  /\ ui' = [ui EXCEPT ![c].chats = result'.val, ![c].pc = "idle"]

\* ------------------------------------------------------------- what is shown
Placeholder == <<"Message deleted">>

\* s || fallback
OrElse(s, fallback) == IF s = <<>> THEN fallback ELSE s

\* the bubble of a message
Bubble(msg) == IF msg.isDeleted THEN Placeholder ELSE msg.text

\* the quote above a message that replies to another:
\* messages.find(m => m.id === msg.replyToId)?.text?.slice(0, 50) || "..."
Quote(c, msg) ==
  LET found == SelectSeq(ui[c].messages, LAMBDA m : m.id = msg.replyToId)
  IN IF found = <<>> THEN <<"...">>
     ELSE OrElse(SubSeq(found[1].text, 1, IF Len(found[1].text) < 50
                                          THEN Len(found[1].text) ELSE 50), <<"...">>)

\* the line under a chat's name in the list: chat.lastMessage?.text || "No messages yet"
Preview(chat) ==
  IF chat.lastMessage = NoMessage THEN <<"No messages yet">>
  ELSE OrElse(chat.lastMessage.text, <<"No messages yet">>)

\* ========================================================== SPECIFICATIONS

\* one browser, the whole input alphabet of the two forms
NextAuth ==
  \E c \in {1} :
    \/ \E phone \in PhoneInputs, username \in UsernameInputs,
          displayName \in NameInputs, password \in PasswordInputs :
         registerAction(c, phone, username, displayName, password) /\ UNCHANGED ui
    \/ \E login \in LoginInputs, password \in LoginPasswords :
         loginAction(c, login, password) /\ UNCHANGED ui
    \/ logoutAction(c) /\ UNCHANGED ui
    \/ \E token \in PresentedTokens : presentToken(c, token) /\ UNCHANGED ui

SpecAuth == Init /\ [][NextAuth]_vars

\* two registrants with nothing in common, for the specifications about chats
Profile1 == <<<<"7">>, <<"a">>, <<"D">>, Rep("p", 6)>>

Profile2 == <<<<"8">>, <<"B">>, <<"E">>, Rep("p", 6)>>

Profiles == {Profile1, Profile2}

MemberIdInputs == {<<>>} \cup {<<u>> : u \in 1..MaxUsers}

Accounts(c) ==
  \/ \E p \in Profiles : registerAction(c, p[1], p[2], p[3], p[4]) /\ UNCHANGED ui
  \/ \E p \in Profiles : loginAction(c, p[1], p[4]) /\ UNCHANGED ui
  \/ logoutAction(c) /\ UNCHANGED ui

\* registration, login and the two chat-creating operations, one call at a time
NextChat ==
  \E c \in Clients :
    \/ Accounts(c)
    \/ \E targetUserId \in 1..MaxUsers : createPrivateChat(c, targetUserId) /\ UNCHANGED ui
    \/ \E memberIds \in MemberIdInputs : createGroupChat(c, <<"G">>, memberIds) /\ UNCHANGED ui

SpecChat == InitConfigured /\ [][NextChat]_vars

\* ---------------------------------------------------------------------------
\* createPrivateChat one await at a time: between two of its store statements any
\* other request may run. calls[c] holds the call's locals.
Idle(c) == calls[c].pc = "idle"

\* await getCurrentUser(), then the select of existingChats
cpcExisting(c, targetUserId) ==
  LET currentUser == getCurrentUser(c)
      existingChats == MemberChats(chatMembers, currentUser.id)
  IN
  /\ Idle(c)
  /\ IF currentUser = NoToken
     THEN Returns(NotAuthenticated("createPrivateChat", c, <<targetUserId>>))
     ELSE /\ calls' = [calls EXCEPT ![c] =
                         [pc |-> IF existingChats = <<>> THEN "insertChat" ELSE "members",
                          uid |-> currentUser.id, targetUserId |-> targetUserId,
                          existingChats |-> existingChats, members |-> <<>>, newChat |-> 0]]
          /\ UNCHANGED <<tables, session, config, result, sent>>

\* const members = await db.select().from(chatMembers).where(chatId = ec.chatId)
cpcMembers(c) ==
  /\ calls[c].pc = "members"
  /\ calls' = [calls EXCEPT ![c].pc = "chat",
                            ![c].members = MembersOf(chatMembers, Head(calls[c].existingChats))]
  /\ UNCHANGED <<tables, session, config, result, sent>>

\* const chat = await db.select().from(chats)...; the if; the next round of the loop
cpcChat(c) ==
  LET call == calls[c]
      ec == Head(call.existingChats)
  IN
  /\ call.pc = "chat"
  /\ IF IsExistingPrivate(PrivateChatRows(chats, ec), call.members, call.targetUserId)
     THEN /\ calls' = [calls EXCEPT ![c] = NoCall]
          /\ result' = Ret("createPrivateChat", c, <<call.targetUserId>>, "chatId", ec)
          /\ UNCHANGED <<tables, session, config, sent>>
     ELSE /\ calls' = [calls EXCEPT ![c].existingChats = Tail(call.existingChats),
                                    ![c].members = <<>>,
                                    ![c].pc = IF Tail(call.existingChats) = <<>>
                                              THEN "insertChat" ELSE "members"]
          /\ UNCHANGED <<tables, session, config, result, sent>>

\* const newChat = await db.insert(chats).values({...}).returning()
cpcInsertChat(c) ==
  LET call == calls[c] IN
  /\ call.pc = "insertChat"
  /\ IF ~UserKeyOk(call.uid)
     THEN /\ calls' = [calls EXCEPT ![c] = NoCall]
          /\ result' = Ret("createPrivateChat", c, <<call.targetUserId>>, "raise",
                           "FOREIGN KEY constraint failed")
          /\ UNCHANGED <<tables, session, config, sent>>
     ELSE /\ Len(chats) < MaxChats
          /\ chats' = Append(chats, PrivateChatRow(call.uid))
          /\ clock' = clock + 1
          /\ calls' = [calls EXCEPT ![c].pc = "insertMembers", ![c].newChat = Len(chats) + 1]
          /\ UNCHANGED <<users, chatMembers, messages, cookies, config, result, sent>>

\* await db.insert(chatMembers).values([...]); return { chatId: newChat[0].id }
cpcInsertMembers(c) ==
  LET call == calls[c] IN
  /\ call.pc = "insertMembers"
  /\ calls' = [calls EXCEPT ![c] = NoCall]
  /\ IF UserKeyOk(call.targetUserId)
     THEN /\ chatMembers' = chatMembers
                              \o PrivateMemberRows(call.newChat, call.uid, call.targetUserId)
          /\ result' = Ret("createPrivateChat", c, <<call.targetUserId>>, "chatId", call.newChat)
     ELSE /\ chatMembers' = chatMembers
          /\ result' = Ret("createPrivateChat", c, <<call.targetUserId>>, "raise",
                           "FOREIGN KEY constraint failed")
  /\ UNCHANGED <<users, chats, messages, session, config, sent>>

\* requests of several clients in flight at once
NextConc ==
  \E c \in Clients :
    \/ Idle(c) /\ \E p \in Profiles : registerAction(c, p[1], p[2], p[3], p[4]) /\ UNCHANGED ui
    \/ Idle(c) /\ \E p \in Profiles : loginAction(c, p[1], p[4]) /\ UNCHANGED ui
    \/ \E targetUserId \in 1..MaxUsers : cpcExisting(c, targetUserId) /\ UNCHANGED ui
    \/ cpcMembers(c) /\ UNCHANGED ui
    \/ cpcChat(c) /\ UNCHANGED ui
    \/ cpcInsertChat(c) /\ UNCHANGED ui
    \/ cpcInsertMembers(c) /\ UNCHANGED ui

SpecConc == InitConfigured /\ [][NextConc]_vars

\* The store is durable: a server process starts on whatever earlier runs left in
\* it. Here: the two registrants, a group chat of both that the first one made, and
\* browsers 1 and 2 still holding the sessions their registrations gave them.
InitSeeded ==
  /\ users = << NewUserRow(Profile1[1], Profile1[2], Profile1[3], Profile1[4]),
                NewUserRow(Profile2[1], Profile2[2], Profile2[3], Profile2[4]) >>
  /\ chats = << [type |-> "group", name |-> <<"G">>, createdBy |-> 1, createdAt |-> 1] >>
  /\ chatMembers = << [chatId |-> 1, userId |-> 1, role |-> "owner"],
                      [chatId |-> 1, userId |-> 2, role |-> "member"] >>
  /\ messages = <<>>
  /\ clock = 2
  /\ envSecret = TRUE
  /\ foreignKeys \in BOOLEAN
  /\ cookies = [c \in Clients |-> IF c <= 2 THEN createToken(UserRow(c)) ELSE NoToken]
  /\ calls = [c \in Clients |-> NoCall]
  /\ result = Ret("none", 0, <<>>, "none", 0)
  /\ sent = <<>>
  /\ ui = [c \in Clients |-> Unmounted]

\* the message operations
NextMsg ==
  \E c \in Clients :
    \/ \E p \in Profiles : loginAction(c, p[1], p[4]) /\ UNCHANGED ui
    \/ logoutAction(c) /\ UNCHANGED ui
    \/ \E chatId \in 1..MaxChats : sendMessage(c, chatId, <<"h", " ">>, 0) /\ UNCHANGED ui
    \/ \E messageId \in 1..MaxMsgs : editMessage(c, messageId, <<"x">>) /\ UNCHANGED ui
    \/ \E messageId \in 1..MaxMsgs : deleteMessage(c, messageId) /\ UNCHANGED ui
    \/ \E chatId \in 1..MaxChats : getChatMessages(c, chatId) /\ UNCHANGED ui

SpecMsg == InitSeeded /\ [][NextMsg]_vars

\* the whole operation surface as one browser drives it, with and without a session
NextSurface ==
  \E c \in {1} :
    \/ loginAction(c, Profile1[1], Profile1[4]) /\ UNCHANGED ui
    \/ logoutAction(c) /\ UNCHANGED ui
    \/ \E token \in PresentedTokens : presentToken(c, token) /\ UNCHANGED ui
    \/ createPrivateChat(c, 2) /\ UNCHANGED ui
    \/ createGroupChat(c, <<"G">>, <<>>) /\ UNCHANGED ui
    \/ sendMessage(c, 1, <<"h", " ">>, 0) /\ UNCHANGED ui
    \/ editMessage(c, 1, <<"x">>) /\ UNCHANGED ui
    \/ deleteMessage(c, 1) /\ UNCHANGED ui
    \/ getUserChats(c) /\ UNCHANGED ui
    \/ getChatMessages(c, 1) /\ UNCHANGED ui
    \/ searchUsers(c, <<"a">>) /\ UNCHANGED ui
    \/ getUserProfile(c) /\ UNCHANGED ui
    \/ updateProfile(c, <<"F">>, <<>>, <<>>) /\ UNCHANGED ui

SpecSurface == InitSeeded /\ [][NextSurface]_vars

\* message texts: nothing, a blank, text with blanks around it, text with a blank
\* inside
TextInputs == {<<>>, <<" ">>, <<" ", "h", " ">>, <<"h", " ", "i">>}

\* what an edit may put in place of a text: nothing, or a text with a blank before it
EditInputs == {<<>>, <<" ", "x">>}

\* sending and editing over the message texts: both users send, to the seeded chat
\* and to a chat id the store does not have, and the first user edits
NextText ==
  \/ logoutAction(2) /\ UNCHANGED ui
  \/ \E c \in {1, 2}, chatId \in {1, MaxChats}, text \in TextInputs :
       sendMessage(c, chatId, text, 0) /\ UNCHANGED ui
  \/ \E messageId \in 1..MaxMsgs, newText \in EditInputs :
       editMessage(1, messageId, newText) /\ UNCHANGED ui

SpecText == InitSeeded /\ [][NextText]_vars

\* the chat list: the first user makes private chats, sends and deletes, and both
\* users read their lists
NextList ==
  \/ \E targetUserId \in 1..MaxUsers : createPrivateChat(1, targetUserId) /\ UNCHANGED ui
  \/ \E chatId \in 1..MaxChats : sendMessage(1, chatId, <<"h">>, 0) /\ UNCHANGED ui
  \/ \E messageId \in 1..MaxMsgs : deleteMessage(1, messageId) /\ UNCHANGED ui
  \/ \E c \in {1, 2} : getUserChats(c) /\ UNCHANGED ui

SpecList == InitSeeded /\ [][NextList]_vars

\* ---------------------------------------------------------------------------
\* A store with more users than a search returns. User i has the phone of i
\* sevens, the username that spells i in five binary digits a and b, and the
\* display name D or E.
DirectorySize == 22

DirectoryUser(i) ==
  NewUserRow(Rep("7", i),
             [k \in 1..5 |-> IF (i \div (2 ^ (5 - k))) % 2 = 1 THEN "b" ELSE "a"],
             IF i % 2 = 1 THEN <<"D">> ELSE <<"E">>,
             Rep("p", 6))

\* the first browser holds the session of some user, or none
InitDirectory ==
  /\ users = [i \in 1..DirectorySize |-> DirectoryUser(i)]
  /\ chats = <<>>
  /\ chatMembers = <<>>
  /\ messages = <<>>
  /\ clock = 1
  /\ envSecret = TRUE
  /\ foreignKeys \in BOOLEAN
  /\ \E t \in {NoToken} \cup {createToken(UserRow(i)) : i \in 1..DirectorySize} :
       cookies = [c \in Clients |-> IF c = 1 THEN t ELSE NoToken]
  /\ calls = [c \in Clients |-> NoCall]
  /\ result = Ret("none", 0, <<>>, "none", 0)
  /\ sent = <<>>
  /\ ui = [c \in Clients |-> Unmounted]

QueryInputs == {<<>>, <<" ">>, <<"a">>, <<"A">>, <<"D">>, <<"b", "b">>, <<"_">>}

NextSearch ==
  \E c \in {1} :
    \/ logoutAction(c) /\ UNCHANGED ui
    \/ \E query \in QueryInputs : searchUsers(c, query) /\ UNCHANGED ui

SpecSearch == InitDirectory /\ [][NextSearch]_vars

\* the profile form: each field filled in or left out
ProfileNameInputs == {<<>>, <<"F">>}

BioInputs == {<<>>, <<"x">>}

ProfileUsernameInputs == {<<>>, <<"7">>, <<"B">>, <<"a", " ">>}

NextProfile ==
  \E c \in Clients :
    \/ \E p \in Profiles : loginAction(c, p[1], p[4]) /\ UNCHANGED ui
    \/ \E displayName \in ProfileNameInputs, bio \in BioInputs,
          username \in ProfileUsernameInputs :
         updateProfile(c, displayName, bio, username) /\ UNCHANGED ui
    \/ getUserProfile(c) /\ UNCHANGED ui

SpecProfile == InitSeeded /\ [][NextProfile]_vars

\* one browser runs ChatApp on the seeded store
NextClient ==
  \E c \in {1} :
    \/ ChatPage(c)
    \/ \E chatId \in 1..MaxChats : openChat(c, chatId)
    \/ openChatMessages(c)
    \/ pollMessages(c)
    \/ pollChats(c)
    \/ \E k \in 1..MaxMsgs : handleContextMenu(c, k)
    \/ menuReply(c)
    \/ menuEdit(c)
    \/ menuDelete(c)
    \/ menuDeleteMessages(c)
    \/ menuCopy(c)
    \/ handleSendMessage(c, <<"h">>)
    \/ handleSendMessageMessages(c)
    \/ handleSendMessageChats(c)

SpecClient == InitSeeded /\ [][NextClient]_vars

\* what the operations hand back: one browser registers both users in turn, makes a
\* chat with the first user, writes to it, and reads through every query
NextExpose ==
  \E c \in {1} :
    \/ Accounts(c)
    \/ createPrivateChat(c, 1) /\ UNCHANGED ui
    \/ sendMessage(c, 1, <<"h">>, 0) /\ UNCHANGED ui
    \/ getUserChats(c) /\ UNCHANGED ui
    \/ getChatMessages(c, 1) /\ UNCHANGED ui
    \/ searchUsers(c, <<"_">>) /\ UNCHANGED ui
    \/ getUserProfile(c) /\ UNCHANGED ui

SpecExpose == InitConfigured /\ [][NextExpose]_vars

\* the first user writes to the seeded chat and deletes the first message, from the
\* server's side; the second user's browser opens the chat and polls it
NextPoll ==
  \/ sendMessage(1, 1, <<"h">>, 0) /\ UNCHANGED ui
  \/ deleteMessage(1, 1) /\ UNCHANGED ui
  \/ ChatPage(2)
  \/ openChat(2, 1)
  \/ openChatMessages(2)
  \/ pollMessages(2)

\* setInterval(..., 3000) keeps firing while the chat is open
SpecPoll ==
  /\ InitSeeded
  /\ [][NextPoll]_vars
  /\ WF_vars(pollMessages(2))

\* a browser with two chats and a poll in flight: the first user has a second chat
\* made and both chats written to, from the server's side; the browser opens chats
\* and polls, the poll's answer arriving any time after its request. Answers arrive
\* in the order of their requests: openChat's request is answered after the answer
\* of a poll made before it.
NextRace ==
  \/ createGroupChat(1, <<"G">>, <<>>) /\ UNCHANGED ui
  \/ \E chatId \in 1..MaxChats : sendMessage(1, chatId, <<"h">>, 0) /\ UNCHANGED ui
  \/ ChatPage(1)
  \/ pollChats(1)
  \/ \E chatId \in 1..MaxChats : openChat(1, chatId)
  \/ ui[1].poll = NoPoll /\ openChatMessages(1)
  \/ pollMessagesRequest(1)
  \/ pollMessagesResponse(1)

SpecRace == InitSeeded /\ [][NextRace]_vars

\* members and others: the first user makes a group of its own, and both users
\* write to and read the chats that exist
NextMember ==
  \/ createGroupChat(1, <<"G">>, <<>>) /\ UNCHANGED ui
  \/ \E c \in {1, 2}, chatId \in ChatIds : sendMessage(c, chatId, <<"h">>, 0) /\ UNCHANGED ui
  \/ \E c \in {1, 2}, chatId \in ChatIds : getChatMessages(c, chatId) /\ UNCHANGED ui

SpecMember == InitSeeded /\ [][NextMember]_vars

\* ================================================================= CLAIMS

\* the session of client c as the claims read it: the cookie, if it carries the
\* deployment's signature
ValidSession(c) == cookies[c] # NoToken /\ cookies[c].key = JWT_SECRET

Caller(c) == cookies[c].id

MemberRows(chatId) == {k \in 1..Len(chatMembers) : chatMembers[k].chatId = chatId}

MemberSet(chatId) == {chatMembers[k].userId : k \in MemberRows(chatId)}

\* C1: when a user calls createPrivateChat for another registered user twice in a
\* row, the second call returns the chat id the first returned and inserts no row
\* into chats or chat_members.
C1_SecondCallSameChat ==
  [][ ( /\ result.op = "createPrivateChat"
        /\ result.kind = "chatId"
        /\ result'.op = "createPrivateChat"
        /\ result'.client = result.client
        /\ result'.args = result.args
        /\ ValidSession(result.client)
        /\ Caller(result.client) \in UserIds
        /\ result.args[1] \in UserIds
        /\ result.args[1] # Caller(result.client) )
      => ( /\ result'.kind = "chatId"
           /\ result'.val = result.val
           /\ chats' = chats
           /\ chatMembers' = chatMembers ) ]_vars

\* a call by the chat's creator that found the chat instead of making one
C1_Witness ==
  /\ result.op = "createPrivateChat"
  /\ result.kind = "chatId"
  /\ ValidSession(result.client)
  /\ result.args[1] \in UserIds
  /\ result.args[1] # Caller(result.client)
  /\ result.val < Len(chats)
  /\ chats[result.val].type = "private"
  /\ chats[result.val].createdBy = Caller(result.client)

\* C2: every private chat has exactly two member rows, of two different users, and
\* no two private chats have the same pair of members.
C2_PrivateChatsAreDistinctPairs ==
  /\ \A x \in ChatIds :
       chats[x].type = "private" =>
         Cardinality(MemberRows(x)) = 2 /\ Cardinality(MemberSet(x)) = 2
  /\ \A x, y \in ChatIds :
       (chats[x].type = "private" /\ chats[y].type = "private"
        /\ MemberSet(x) = MemberSet(y)) => x = y

\* C3: however two createPrivateChat calls for the same pair of registered users
\* interleave, the store holds at most one private chat whose members are that pair.
C3_OnePrivateChatPerPair ==
  \A x, y \in ChatIds :
    ( /\ chats[x].type = "private"
      /\ chats[y].type = "private"
      /\ Cardinality(MemberRows(x)) = 2
      /\ Cardinality(MemberRows(y)) = 2
      /\ Cardinality(MemberSet(x)) = 2
      /\ MemberSet(x) \subseteq UserIds
      /\ MemberSet(x) = MemberSet(y) ) => x = y

\* the characters the claims allow in a username, and the capital letters
ClaimWordChars == {"a", "b", "A", "B", "7", "8", "_"}

HasForeignChar(s) == \E i \in 1..Len(s) : s[i] \notin ClaimWordChars

HasCapital(s) == \E i \in 1..Len(s) : s[i] \in {"A", "B"}

\* a registerAction step whose form passes the field checks
WellFormedRegistration(args) ==
  /\ args[1] # <<>>
  /\ args[2] # <<>>
  /\ args[3] # <<>>
  /\ Len(args[4]) >= 6
  /\ ~HasForeignChar(args[2])

\* C4: a registration whose username equals a stored one up to letter case, or
\* whose phone is stored, returns the duplicate error, does not raise, and adds no
\* user row.
C4_DuplicateIsStructuredError ==
  [][ ( /\ result'.op = "registerAction"
        /\ result' # result
        /\ WellFormedRegistration(result'.args)
        /\ \E i \in UserIds :
             \/ users[i].phone = result'.args[1]
             \/ toLowerCase(users[i].username) = toLowerCase(result'.args[2]) )
      => ( /\ result'.kind = "error"
           /\ result'.val = "Phone number or username already registered"
           /\ users' = users ) ]_vars

\* C5: a registration with a password of fewer than 6 characters, or a username
\* with a character outside [A-Za-z0-9_], gets an error result and creates neither a
\* user row nor a session; an accepted registration appends one row whose username
\* is the submitted one in lowercase.
C5_RegistrationValidates ==
  [][ ( result'.op = "registerAction" /\ result' # result )
      => ( /\ (Len(result'.args[4]) < 6 \/ HasForeignChar(result'.args[2]))
                => ( /\ result'.kind = "error"
                     /\ users' = users
                     /\ cookies' = cookies )
           /\ (users' # users) => result'.kind = "redirect"
           /\ (result'.kind = "redirect")
                => ( /\ Len(users') = Len(users) + 1
                     /\ SubSeq(users', 1, Len(users)) = users
                     /\ users'[Len(users')].username = toLowerCase(result'.args[2])
                     /\ ~HasCapital(users'[Len(users')].username) ) ) ]_vars

\* a registration under a capitalised username was accepted and stored in lowercase
C5_Witness ==
  /\ result.op = "registerAction"
  /\ result.kind = "redirect"
  /\ result.args[2] = <<"A">>
  /\ users[Len(users)].username = <<"a">>

\* C6: a login whose identifier is a registered user's phone, or that user's
\* username in any letter case, with that user's password, succeeds, gives the
\* client a session for that user and sets the user's online flag (stated for the
\* logins that fit one user only).
C6_LoginFindsTheUser ==
  [][ ( result'.op = "loginAction" /\ result' # result )
      => LET login == result'.args[1]
             password == result'.args[2]
             owners == {u \in UserIds :
                          /\ \/ users[u].phone = login
                             \/ users[u].username = toLowerCase(login)
                          /\ users[u].passwordHash = bcryptHash(password)}
         IN \A u \in owners :
              Cardinality(owners) = 1
                => ( /\ result'.kind = "redirect"
                     /\ cookies'[result'.client].id = u
                     /\ users'[u].isOnline ) ]_vars

\* C7: in a deployment that does not set JWT_SECRET no client ever holds a session
\* the server accepts: none is issued, and a token signed with the built-in default
\* is refused.
C7_FailsClosedWithoutSecret ==
  ~envSecret => \A c \in Clients : getCurrentUser(c) = NoToken

Mutations ==
  {"createPrivateChat", "createGroupChat", "sendMessage", "editMessage",
   "deleteMessage", "updateProfile"}

Queries == {"getUserChats", "getChatMessages", "searchUsers"}

\* a step in which client result'.client called one of the ten operations while
\* holding no valid session
CalledWithoutSession ==
  /\ result' # result
  /\ result'.op \in Mutations \cup Queries \cup {"getUserProfile"}
  /\ ~ValidSession(result'.client)

C9_OnlySenderChangesMessage ==
  /\ [](\A m \in MessageIds :
          ( \/ messages[m].text # sent[m].text
            \/ messages[m].isEdited
            \/ messages[m].isDeleted ) => sent[m].bySender)
  /\ [][ /\ \A m \in MessageIds :
              messages'[m] # messages[m]
                => ( /\ result'.op \in {"editMessage", "deleteMessage"}
                     /\ result'.args[1] = m
                     /\ ValidSession(result'.client)
                     /\ Caller(result'.client) = messages[m].senderId )
         /\ ( /\ result' # result
              /\ result'.op \in {"editMessage", "deleteMessage"}
              /\ ValidSession(result'.client) ) => result'.kind = "success" ]_vars

\* someone other than the sender was told that the edit succeeded, and the message
\* is as it was sent
C9_Witness ==
  /\ result.op = "editMessage"
  /\ result.kind = "success"
  /\ result.args[1] \in MessageIds
  /\ ValidSession(result.client)
  /\ Caller(result.client) # messages[result.args[1]].senderId
  /\ messages[result.args[1]].text = sent[result.args[1]].text
  /\ ~messages[result.args[1]].isEdited

\* C10: once its sender has deleted a message, the row keeps its deleted flag and
\* the text it had when it was deleted, and getChatMessages for its chat returns it
\* so to every caller with a session.
C10_DeletedKeepsItsText ==
  \A m \in MessageIds :
    sent[m].deleted =>
      /\ messages[m].isDeleted
      /\ messages[m].text = sent[m].deletedText
      /\ ( /\ result.op = "getChatMessages"
           /\ result.args[1] = messages[m].chatId
           /\ ValidSession(result.client) )
         => \E k \in 1..Len(result.val) :
              /\ result.val[k].id = m
              /\ result.val[k].isDeleted
              /\ result.val[k].text = sent[m].deletedText

\* text is n blanks, for some n
Blank(text) == \A k \in 1..Len(text) : text[k] = " "

\* stored is text without the blanks at its two ends
TrimmedOf(text, stored) ==
  /\ stored # <<>>
  /\ stored[1] # " "
  /\ stored[Len(stored)] # " "
  /\ \E a, b \in 0..Len(text) : text = Rep(" ", a) \o stored \o Rep(" ", b)

\* a step in which the operation op returned to a caller with a session
Returned(op) == result' # result /\ result'.op = op /\ ValidSession(result'.client)

\* C12: sendMessage by a caller with a session, to a chat the store has, answers a
\* text that is blank after trimming with the error "Message cannot be empty" and
\* inserts no row; for any other text it appends exactly one row, whose text is
\* the text without the blanks at its ends, whose chatId is the given one and
\* whose sender is the caller, and returns that row.
C12_SendStoresTrimmedText ==
  [][ ( /\ Returned("sendMessage")
        /\ result'.args[1] \in ChatIds )
      => LET text == result'.args[2] IN
         IF Blank(text)
         THEN /\ result'.kind = "error"
              /\ result'.val = "Message cannot be empty"
              /\ messages' = messages
         ELSE /\ Len(messages') = Len(messages) + 1
              /\ SubSeq(messages', 1, Len(messages)) = messages
              /\ TrimmedOf(text, messages'[Len(messages')].text)
              /\ messages'[Len(messages')].chatId = result'.args[1]
              /\ messages'[Len(messages')].senderId = Caller(result'.client)
              /\ ~messages'[Len(messages')].isDeleted
              /\ result'.kind = "message"
              /\ result'.val.id = Len(messages')
              /\ result'.val.text = messages'[Len(messages')].text ]_vars

\* the second user sent a text with blanks around it and the row holds the text
\* between them
C12_Witness ==
  /\ result.op = "sendMessage"
  /\ result.kind = "message"
  /\ result.args[2] = <<" ", "h", " ">>
  /\ result.val.text = <<"h">>
  /\ result.val.senderId = 2
  /\ messages[result.val.id].text = <<"h">>

\* C13: after any sequence of sendMessage and editMessage calls no stored message
\* has a text that is empty after trimming.
C13_NoBlankStoredText ==
  \A m \in MessageIds : ~Blank(messages[m].text)

\* C14: after any sequence of createPrivateChat and createGroupChat calls,
\* chat_members holds at most one row for each (chat, user) pair.
C14_MemberPairsUnique ==
  \A i, j \in 1..Len(chatMembers) :
    ( /\ chatMembers[i].chatId = chatMembers[j].chatId
      /\ chatMembers[i].userId = chatMembers[j].userId ) => i = j

OwnerRows(chatId) == {k \in MemberRows(chatId) : chatMembers[k].role = "owner"}

\* every group chat has exactly one membership row with role owner, the row of the
\* user who created the chat
GroupsOwned ==
  \A ch \in ChatIds :
    chats[ch].type = "group"
      => /\ Cardinality(OwnerRows(ch)) = 1
         /\ \A k \in OwnerRows(ch) : chatMembers[k].userId = chats[ch].createdBy

\* C15: after every step each group chat has exactly one member with role owner,
\* the user who created it; a createGroupChat that made a chat made it for its
\* caller and left every id of memberIds a member with role member; and no step
\* changes or removes a membership row.
C15_GroupHasItsOwner ==
  [][ /\ GroupsOwned'
      /\ Len(chatMembers') >= Len(chatMembers)
      /\ SubSeq(chatMembers', 1, Len(chatMembers)) = chatMembers
      /\ ( /\ Returned("createGroupChat")
           /\ Len(chats') > Len(chats) )
         => /\ chats'[Len(chats')].createdBy = Caller(result'.client)
            /\ \A i \in 1..Len(result'.args[2]) :
                 \E k \in 1..Len(chatMembers') :
                   /\ chatMembers'[k].chatId = Len(chats')
                   /\ chatMembers'[k].userId = result'.args[2][i]
                   /\ chatMembers'[k].role = "member" ]_vars

\* the messages of a chat that are not deleted
Live(chatId) ==
  {m \in MessageIds : messages[m].chatId = chatId /\ ~messages[m].isDeleted}

\* the key the chat list is ordered by: the creation time of the chat's most recent
\* message that is not deleted, or else of the chat
ListKey(chatId) ==
  IF Live(chatId) = {} THEN chats[chatId].createdAt
  ELSE CHOOSE t \in {messages[m].createdAt : m \in Live(chatId)} :
         \A m \in Live(chatId) : messages[m].createdAt <= t

\* C16: getUserChats returns to a caller with a session the chats the caller is a
\* member of, ordered by descending key, the key of a chat being the creation time
\* of its most recent message that is not deleted, or the chat's creation time when
\* it has none.
C16_ListOrderedByKey ==
  [][ Returned("getUserChats")
      => LET rows == result'.val IN
         /\ {rows[k].id : k \in 1..Len(rows)}
              = {ch \in ChatIds : Caller(result'.client) \in MemberSet(ch)}
         /\ \A k \in 1..(Len(rows) - 1) :
              ListKey(rows[k].id) >= ListKey(rows[k + 1].id) ]_vars

\* the older chat comes first because of its message; the newer chat's only
\* message is deleted
C16_Witness ==
  /\ result.op = "getUserChats"
  /\ Len(result.val) = 2
  /\ result.val[1].id = 1
  /\ result.val[1].lastMessage # NoMessage
  /\ result.val[2].id = 2
  /\ result.val[2].lastMessage = NoMessage
  /\ \E m \in MessageIds : messages[m].chatId = 2 /\ messages[m].isDeleted

\* C17: in every summary getUserChats returns, lastMessage is the chat's message
\* with the greatest creation time among those that are not deleted, and null when
\* the chat has none.
C17_LastMessageIsNewestLive ==
  [][ Returned("getUserChats")
      => \A k \in 1..Len(result'.val) :
           LET row == result'.val[k] IN
           IF Live(row.id) = {}
           THEN row.lastMessage = NoMessage
           ELSE /\ row.lastMessage # NoMessage
                /\ row.lastMessage.id \in Live(row.id)
                /\ \A m \in Live(row.id) :
                     messages[m].createdAt <= messages[row.lastMessage.id].createdAt
                /\ ~row.lastMessage.isDeleted
                /\ row.lastMessage.text = messages[row.lastMessage.id].text
                /\ row.lastMessage.createdAt = messages[row.lastMessage.id].createdAt ]_vars

\* the chat's newest message is deleted and the summary carries the one before it
C17_Witness ==
  /\ result.op = "getUserChats"
  /\ \E k \in 1..Len(result.val) :
       /\ result.val[k].lastMessage # NoMessage
       /\ result.val[k].lastMessage.id = 1
       /\ Len(messages) = 2
       /\ messages[2].chatId = result.val[k].id
       /\ messages[2].isDeleted

\* C18: for every private chat getUserChats returns, the summary's name is the
\* display name of the member who is not the caller, and not the caller's own.
C18_PrivateChatNamedAfterOther ==
  [][ Returned("getUserChats")
      => \A k \in 1..Len(result'.val) :
           LET row == result'.val[k]
               caller == Caller(result'.client)
           IN
           row.type = "private"
             => /\ \A u \in (MemberSet(row.id) \cap UserIds) \ {caller} :
                     row.name = users[u].displayName
                /\ row.name # users[caller].displayName ]_vars

\* the first user, whose membership row comes first, sees the chat under the second
\* user's name
C18_Witness ==
  /\ result.op = "getUserChats"
  /\ result.client = 1
  /\ Caller(1) = 1
  /\ \E k \in 1..Len(result.val) :
       /\ result.val[k].type = "private"
       /\ result.val[k].members[1].userId = 1
       /\ result.val[k].name = users[2].displayName

\* C19: searchUsers never returns the caller's own record, never returns more than
\* 20 records, and returns nothing for a query that is blank after trimming.
C19_SearchExcludesCaller ==
  [][ Returned("searchUsers")
      => /\ result'.kind = "rows"
         /\ \A k \in 1..Len(result'.val) : result'.val[k].id # Caller(result'.client)
         /\ Len(result'.val) <= 20
         /\ Blank(result'.args[1]) => result'.val = <<>> ]_vars

\* more than 20 users match, the caller among them by username and by display
\* name, and 19 or 20 others came back
C19_Witness ==
  /\ result.op = "searchUsers"
  /\ ValidSession(result.client)
  /\ Cardinality({i \in UserIds : Like(users[i].displayName, result.args[1])
                                  \/ Like(users[i].username, result.args[1])}) > 20
  /\ Like(users[Caller(result.client)].username, result.args[1])
  /\ Like(users[Caller(result.client)].displayName, result.args[1])
  /\ Len(result.val) >= 19

\* C20: updateProfile with an empty display name returns an error and changes
\* nothing; with a display name, a bio left out leaves the stored bio as it was and
\* a username left out leaves the stored username as it was.
C20_OmittedFieldsKept ==
  [][ Returned("updateProfile")
      => LET id == Caller(result'.client) IN
         IF result'.args[1] = <<>>
         THEN result'.kind = "error" /\ users' = users
         ELSE /\ result'.args[2] = <<>> => users'[id].bio = users[id].bio
              /\ result'.args[3] = <<>> => users'[id].username = users[id].username ]_vars

\* what browser c shows of the messages it knows to be deleted: the bubble and the
\* quotes of the replies do not carry the text, and no chat's preview is that of a
\* deleted message
ViewHidesDeleted(c) ==
  /\ \A k \in 1..Len(ui[c].messages) :
       LET msg == ui[c].messages[k] IN
       msg.isDeleted
         => /\ Bubble(msg) # msg.text
            /\ \A j \in 1..Len(ui[c].messages) :
                 ui[c].messages[j].replyToId = msg.id
                   => Quote(c, ui[c].messages[j]) # msg.text
  /\ \A k \in 1..Len(ui[c].chats) :
       ui[c].chats[k].lastMessage # NoMessage => ~ui[c].chats[k].lastMessage.isDeleted

\* C11: once a message is soft-deleted no consumer shows its text: for a message a
\* browser knows to be deleted, the bubble, the quote over every reply to it and
\* the chat list's preview show a placeholder or nothing, and the copy action does
\* not put its text on the clipboard.
C11_DeletedTextNotSurfaced ==
  [][ \A c \in Clients :
        /\ ViewHidesDeleted(c)'
        /\ ( /\ ui'[c].clipboard # ui[c].clipboard
             /\ ui[c].contextMenu # NoMessage
             /\ ui[c].contextMenu.isDeleted )
           => ui'[c].clipboard # ui[c].contextMenu.text ]_vars
\* C21: every stored username is lowercase and made of letters, digits and
\* underscores only, and no two users share a username or a phone.
C21_UsernamesWellFormedUnique ==
  /\ \A i \in UserIds :
       /\ ~HasCapital(users[i].username)
       /\ ~HasForeignChar(users[i].username)
  /\ \A i, j \in UserIds :
       i # j => /\ users[i].username # users[j].username
                /\ users[i].phone # users[j].phone

\* an updateProfile call whose username, lowercased, is the stored username of a
\* user other than the caller
TakesHeldUsername ==
  /\ result'.op = "updateProfile"
  /\ ValidSession(result'.client)
  /\ result'.args[1] # <<>>
  /\ result'.args[3] # <<>>
  /\ \E i \in UserIds :
       /\ i # Caller(result'.client)
       /\ users[i].username = toLowerCase(result'.args[3])

\* a createPrivateChat or createGroupChat call that names a user id the users table
\* does not hold
NamesMissingUser ==
  /\ result'.op \in {"createPrivateChat", "createGroupChat"}
  /\ ValidSession(result'.client)
  /\ IF result'.op = "createPrivateChat"
     THEN result'.args[1] \notin UserIds
     ELSE \E k \in 1..Len(result'.args[2]) : result'.args[2][k] \notin UserIds

\* C22: no operation raises; updateProfile with a username another user holds, and
\* createPrivateChat or createGroupChat naming a user id that does not exist, return
\* an error result and leave the four tables as they were.
C22_FailuresAreErrorResults ==
  [][ result' # result
      => /\ result'.kind # "raise"
         /\ (TakesHeldUsername \/ NamesMissingUser)
              => (result'.kind = "error" /\ tables' = tables) ]_vars

\* C28: the username and the display name getCurrentUser resolves from a valid
\* session are the ones stored for that user id.
C28_SessionIdentityIsStored ==
  \A c \in Clients :
    (ValidSession(c) /\ Caller(c) \in UserIds)
      => /\ getCurrentUser(c).username = users[Caller(c)].username
         /\ getCurrentUser(c).displayName = users[Caller(c)].displayName

\* the stored password hashes
Hashes == {users[i].passwordHash : i \in UserIds}

\* the fields of a returned row or of a token that hold text
TextFields ==
  {"username", "displayName", "phone", "bio", "name", "text", "senderUsername",
   "senderDisplayName"}

\* record rec has no passwordHash field and no text field holding a stored hash
HidesHash(rec) ==
  /\ "passwordHash" \notin DOMAIN rec
  /\ \A f \in DOMAIN rec \cap TextFields : rec[f] \notin Hashes

\* a returned row, with the member rows and the last message it may carry
RowHidesHash(row) ==
  /\ HidesHash(row)
  /\ "members" \in DOMAIN row
       => \A k \in 1..Len(row.members) : HidesHash(row.members[k])
  /\ "lastMessage" \in DOMAIN row => HidesHash(row.lastMessage)

\* C23: no session token and no return value of an operation carries a password
\* hash, as a passwordHash field or as the value of another field, of the caller
\* or of any other user.
C23_NoPasswordHashExposed ==
  /\ \A c \in Clients : HidesHash(cookies[c])
  /\ result.kind = "rows" => \A k \in 1..Len(result.val) : RowHidesHash(result.val[k])
  /\ result.kind \in {"profile", "message"} => HidesHash(result.val)

\* getUserProfile returned the profile of a caller whose row holds a password
\* hash, in a store with two users and a chat
C23_Witness ==
  /\ result.op = "getUserProfile"
  /\ result.kind = "profile"
  /\ users[result.val.id].passwordHash # <<>>
  /\ Len(users) = 2
  /\ chatMembers # <<>>

\* browser c shows message m in its message list
Shown(c, m) == \E k \in 1..Len(ui[c].messages) : ui[c].messages[k].id = m

\* a list of rows in ascending order of creation time
AscendingByCreation(rows) ==
  \A j, k \in 1..Len(rows) : j < k => rows[j].createdAt <= rows[k].createdAt

\* C24: every getChatMessages(chatId) call by an authenticated caller returns every
\* message sendMessage stored for that chat before the call, in ascending order of
\* creation time; and a message stored for the chat a polling browser has open is
\* eventually in the message list that browser shows.
C24_SentMessageIsRead ==
  /\ [][ Returned("getChatMessages")
         => /\ \A m \in MessageIds :
                 messages[m].chatId = result'.args[1]
                   => \E k \in 1..Len(result'.val) : result'.val[k].id = m
            /\ AscendingByCreation(result'.val) ]_vars
  /\ \A m \in 1..MaxMsgs :
       ( /\ m \in MessageIds
         /\ messages[m].chatId = 1
         /\ ValidSession(2)
         /\ Mounted(2)
         /\ ui[2].activeChatId = 1 ) ~> Shown(2, m)

\* the polling browser shows two messages of the chat it has open, the first of
\* them deleted by its sender, and the last call returned both
C24_Witness ==
  /\ ui[2].activeChatId = 1
  /\ Len(ui[2].messages) = 2
  /\ ui[2].messages[1].isDeleted
  /\ ui[2].messages[1].createdAt < ui[2].messages[2].createdAt
  /\ result.op = "getChatMessages"
  /\ Len(result.val) = 2

\* the result an operation gives a caller without a valid session: the error
\* object from the six mutations, an empty list from the three list queries, null
\* from getUserProfile
Refused ==
  /\ result'.op \in Mutations
       => (result'.kind = "error" /\ result'.val = "Not authenticated")
  /\ result'.op \in Queries => (result'.kind = "rows" /\ result'.val = <<>>)
  /\ result'.op = "getUserProfile" => result'.kind = "null"

\* what logoutAction does: the caller's cookie removed, the caller's online flag
\* set to false, nothing else changed
LogoutStep ==
  (result' # result /\ result'.op = "logoutAction")
    => LET c == result'.client IN
       /\ cookies' = [cookies EXCEPT ![c] = NoToken]
       /\ users' = IF ValidSession(c) /\ Caller(c) \in UserIds
                   THEN [users EXCEPT ![Caller(c)].isOnline = FALSE]
                   ELSE users
       /\ <<chats, chatMembers, messages>>' = <<chats, chatMembers, messages>>

\* a client comes to hold a valid session only through a registerAction or
\* loginAction call of its own that succeeds
SessionOnlyByLogin ==
  \A c \in Clients :
    (~ValidSession(c) /\ ValidSession(c)')
      => /\ result'.op \in {"registerAction", "loginAction"}
         /\ result'.client = c
         /\ result'.kind = "redirect"

C26_NoChatWithoutMembers ==
  \A chatId \in ChatIds : MemberRows(chatId) # {}

\* every message browser c shows is a message of the chat that is active in it
ListOfActiveChat(c) ==
  \A k \in 1..Len(ui[c].messages) : ui[c].messages[k].chatId = ui[c].activeChatId

\* the answer to a poll of browser c arrives while another chat than the polled one
\* is active in it
LateResponse(c) ==
  /\ ui[c].poll # NoPoll
  /\ ui'[c].poll = NoPoll
  /\ ui[c].poll.chatId # ui[c].activeChatId

\* C27: the message list a browser shows while it awaits no answer is that of its
\* active chat, and the answer to a poll for chat X that arrives after the user has
\* opened chat Y leaves the message list as it is.
C27_LateResponseIgnored ==
  [][ \A c \in Clients :
        /\ (ui'[c].pc = "idle" /\ ui'[c].poll = NoPoll) => ListOfActiveChat(c)'
        /\ LateResponse(c) => ui'[c].messages = ui[c].messages ]_vars

\* the sender of every stored message is a member of the message's chat
SendersAreMembers ==
  \A m \in MessageIds : messages[m].senderId \in MemberSet(messages[m].chatId)

\* a getChatMessages call that returns messages has a member of the chat as caller
ReadersAreMembers ==
  (Returned("getChatMessages") /\ result'.val # <<>>)
    => Caller(result'.client) \in MemberSet(result'.args[1])

\* C29: every stored message's sender is a member of the message's chat, and
\* getChatMessages returns messages of a chat only to a caller who is a member of
\* that chat.
C29_MessagesStayAmongMembers ==
  [][SendersAreMembers' /\ ReadersAreMembers]_vars

\* C30: a user who holds a valid session, issued by registerAction or loginAction
\* and not ended by logoutAction, has the online flag set.
C30_OnlineWhileSessionHeld ==
  \A c \in Clients :
    (ValidSession(c) /\ Caller(c) \in UserIds) => users[Caller(c)].isOnline

====
